---- MODULE Spec2Model ----
(***************************************************************************)
(* A model of pylops.basicoperators.Transpose and                          *)
(* pylops.basicoperators.MatrixMult: construction (__init__), forward      *)
(* (_matvec) and adjoint (_rmatvec) application.                           *)
(*                                                                         *)
(* Conventions.  Axis numbers, multi-indices and offsets are 0-based as in *)
(* the Python source; TLA+ sequences are 1-based, so element i of a Python *)
(* sequence s is s[i + 1], written At(s, i).  An n-d array is modelled the *)
(* way numpy holds it: a flat data buffer with a shape and strides (in     *)
(* elements).                                                              *)
(***************************************************************************)
EXTENDS Integers, Sequences, FiniteSets, TLC

\* ------------------------------------------------------------------ bounds
MaxRank == 3      \* largest len(dims) of a Transpose
MaxDim == 3       \* largest entry of dims
MaxSize == 6      \* largest prod(dims) of a Transpose
MaxVal == 2       \* largest entry of an input buffer that is not an iota
MaxMat == 2       \* largest number of rows, and of columns, of a matrix A
MaxOther == 2     \* largest entry of otherdims
MaxOtherRank == 2 \* largest len(otherdims)
MaxLen == 4       \* largest length of a buffer a MatrixMult is applied to
NThreads == 2     \* threads calling the same operator

\* ----------------------------------------------------------------- helpers
At(s, i) == s[i + 1]

Range(s) == {s[i] : i \in DOMAIN s}

RECURSIVE SeqProd(_)
SeqProd(s) == IF s = <<>> THEN 1 ELSE Head(s) * SeqProd(Tail(s))

\* np.zeros(n, dtype=int)
np_zeros(n) == [i \in 1..n |-> 0]

\* np.arange(n, dtype=int)
np_arange(n) == [i \in 1..n |-> i - 1]

\* The sequences of length n over S.
SeqsOf(S, n) == [1..n -> S]

\* ------------------------------------------------------ numpy primitives
\* normalize_axis_index(ax, ndims): -1 stands for AxisError.
normalize_axis_index(ax, ndims) ==
    IF ax < -ndims \/ ax >= ndims THEN -1
    ELSE IF ax < 0 THEN ax + ndims ELSE ax

\* Whether a value array of length nval broadcasts to an index array of
\* length nidx in the assignment a[idx] = val.
Broadcasts(nval, nidx) == nval = nidx \/ nval = 1

\* a[idx] = val for integer index array idx (0-based entries): assignments
\* happen in index order, so a repeated index keeps the last value.
RECURSIVE FancyAssignFrom(_, _, _, _)
FancyAssignFrom(a, idx, val, k) ==
    IF k > Len(idx) THEN a
    ELSE FancyAssignFrom(
             [a EXCEPT ![idx[k] + 1] = IF Len(val) = 1 THEN val[1] ELSE val[k]],
             idx, val, k + 1)

FancyAssign(a, idx, val) == FancyAssignFrom(a, idx, val, 1)

\* Row-major (C order) strides, in elements, of an array of the given shape.
CStrides(shape) ==
    [j \in 1..Len(shape) |-> SeqProd(SubSeq(shape, j + 1, Len(shape)))]

\* Whether a transpose axes argument fits an array of rank nd: one entry
\* per axis, no axis twice.
AxesFit(axes, nd) ==
    /\ Len(axes) = nd
    /\ \A i \in 1..nd : axes[i] \in 0..(nd - 1)
    /\ \A i, j \in 1..nd : i # j => axes[i] # axes[j]

\* An array value: ok = FALSE stands for a raised ValueError.
NdRaise(msg) == [ok |-> FALSE, error |-> msg, shape |-> <<>>, strides |-> <<>>, data |-> <<>>]

\* x.reshape(shape) of a flat buffer x: a C-contiguous view of the data.
nd_reshape(x, shape) ==
    IF Len(x) # SeqProd(shape)
    THEN NdRaise("cannot reshape array")
    ELSE [ok |-> TRUE, error |-> "", shape |-> shape,
          strides |-> CStrides(shape), data |-> x]

\* y.transpose(axes): a view whose axis j is axis axes[j] of y.
nd_transpose(y, axes) ==
    IF ~y.ok THEN y
    ELSE IF ~AxesFit(axes, Len(y.shape)) THEN NdRaise("axes don't match array")
    ELSE [y EXCEPT !.shape = [j \in 1..Len(axes) |-> At(y.shape, axes[j])],
                   !.strides = [j \in 1..Len(axes) |-> At(y.strides, axes[j])]]

\* The multi-index (0-based entries) of row-major position p in shape.
Unravel(p, shape) ==
    LET cs == CStrides(shape)
    IN  [j \in 1..Len(shape) |-> (p \div cs[j]) % shape[j]]

RECURSIVE Dot(_, _)
Dot(k, strides) ==
    IF k = <<>> THEN 0 ELSE Head(k) * Head(strides) + Dot(Tail(k), Tail(strides))

\* y.ravel(): the elements of y in row-major order of its shape.
nd_ravel(y) ==
    IF ~y.ok THEN y
    ELSE [ok |-> TRUE, error |-> "", shape |-> <<SeqProd(y.shape)>>,
          strides |-> <<1>>,
          data |-> [p \in 1..SeqProd(y.shape) |->
                       y.data[Dot(Unravel(p - 1, y.shape), y.strides) + 1]]]

\* --------------------------------------------------------------- Transpose
\* The object a failed construction leaves behind: none (ok = FALSE), with
\* the exception's message.
TransposeRaise(msg) ==
    [cls |-> "Transpose", ok |-> FALSE, error |-> msg, dims |-> <<>>,
     axes |-> <<>>, axesd |-> <<>>,
     dimsd |-> <<>>, shape |-> <<0, 0>>, dtype |-> "", explicit |-> FALSE,
     clinear |-> FALSE]

\* len(np.unique(self.axes)) != ndims, negated.
AxesOnce(axes, ndims) == Cardinality(Range(axes)) = ndims

\* dimsd computed with axes in place of axesd.
Transpose_dimsd_by_axes(dims, axes, axesd) ==
    FancyAssign(np_zeros(Len(dims)), axes, dims)

\* dimsd = np.zeros(ndims); dimsd[self.axesd] = self.dims
Transpose_dimsd(dims, axes, axesd) ==
    FancyAssign(np_zeros(Len(dims)), axesd, dims)

\* self.axesd = np.zeros(ndims); self.axesd[self.axes] = np.arange(ndims)
Transpose_axesd(axes, ndims) ==
    FancyAssign(np_zeros(ndims), axes, np_arange(ndims))

\* Transpose.__init__(dims, axes, dtype)
Transpose_init(dims, axes, dtype) ==
    LET ndims == Len(dims)
        naxes == [i \in 1..Len(axes) |-> normalize_axis_index(axes[i], ndims)]
    IN  IF \E i \in 1..Len(axes) : naxes[i] = -1
        THEN TransposeRaise("axis is out of bounds")
        ELSE IF ~AxesOnce(naxes, ndims)
        THEN TransposeRaise("axes must contain each direction once")
        ELSE IF ~Broadcasts(ndims, Len(naxes))
        THEN TransposeRaise("shape mismatch")
        ELSE LET axesd == Transpose_axesd(naxes, ndims)
                 dimsd == Transpose_dimsd(dims, naxes, axesd)
             IN  [cls |-> "Transpose", ok |-> TRUE, error |-> "",
                  dims |-> dims, axes |-> naxes,
                  axesd |-> axesd, dimsd |-> dimsd,
                  shape |-> <<SeqProd(dimsd), SeqProd(dims)>>,
                  dtype |-> dtype, explicit |-> FALSE, clinear |-> TRUE]

\* Forward that permutes by axesd.
Transpose_matvec_by_axesd(self, x) ==
    nd_ravel(nd_transpose(nd_reshape(x, self.dims), self.axesd))

\* Transpose._matvec(x)
Transpose_matvec(self, x) ==
    nd_ravel(nd_transpose(nd_reshape(x, self.dims), self.axes))

\* Adjoint that permutes by axes again.
Transpose_rmatvec_by_axes(self, x) ==
    nd_ravel(nd_transpose(nd_reshape(x, self.dimsd), self.axes))

\* Transpose._rmatvec(x)
Transpose_rmatvec(self, x) ==
    nd_ravel(nd_transpose(nd_reshape(x, self.dimsd), self.axesd))

\* ---------------------------------------------------- complex arithmetic
\* A number is a pair <<re, im>> of integers (a Gaussian integer); a real
\* number has im = 0.
CAdd(a, b) == <<a[1] + b[1], a[2] + b[2]>>

CMul(a, b) == <<a[1] * b[1] - a[2] * b[2], a[1] * b[2] + a[2] * b[1]>>

CConj(a) == <<a[1], -a[2]>>

\* The sum of f[1], .., f[n].
RECURSIVE CSum(_, _)
CSum(f, n) == IF n = 0 THEN <<0, 0>> ELSE CAdd(CSum(f, n - 1), f[n])

\* np.iscomplexobj of an array of the given dtype.
IsComplexDType(dtype) == dtype \in {"complex64", "complex128"}

\* x.conj(): a new array, element-wise conjugate.
nd_conj(y) ==
    IF ~y.ok THEN y
    ELSE [y EXCEPT !.data = [p \in 1..Len(y.data) |-> CConj(y.data[p])]]

\* The element of array y at multi-index k.
nd_item(y, k) == y.data[Dot(k, y.strides) + 1]

\* A flat buffer as a 1-d array.
nd_array(x) ==
    [ok |-> TRUE, error |-> "", shape |-> <<Len(x)>>, strides |-> <<1>>, data |-> x]

\* M.T of a matrix held as a sequence of rows.
mat_T(M) == [j \in 1..Len(M[1]) |-> [i \in 1..Len(M) |-> M[i][j]]]

\* M.dot(y) for a 2-d M and a 1-d or 2-d array y: the sum over M's last axis
\* and y's first; a new C-contiguous array.
mat_dot(M, y) ==
    LET r == Len(M)
        c == Len(M[1])
    IN  IF ~y.ok THEN y
        ELSE IF y.shape[1] # c THEN NdRaise("shapes not aligned")
        ELSE IF Len(y.shape) = 1
        THEN [ok |-> TRUE, error |-> "", shape |-> <<r>>, strides |-> <<1>>,
              data |-> [i \in 1..r |->
                  CSum([j \in 1..c |-> CMul(M[i][j], nd_item(y, <<j - 1>>))], c)]]
        ELSE LET P == y.shape[2]
             IN  [ok |-> TRUE, error |-> "", shape |-> <<r, P>>,
                  strides |-> <<P, 1>>,
                  data |-> [p \in 1..(r * P) |->
                      CSum([j \in 1..c |->
                               CMul(M[((p - 1) \div P) + 1][j],
                                    nd_item(y, <<j - 1, (p - 1) % P>>))], c)]]

\* -------------------------------------------------------------- MatrixMult
\* A matrix argument: its dtype, its container (format: a numpy "ndarray", or
\* a scipy.sparse matrix in a compressed format, "csr", or in list-of-lists
\* format, "lil"), and its entries as a sequence of rows (field data).
A_shape(A) == <<Len(A.data), Len(A.data[1])>>

\* The otherdims argument: None, or a tuple.
None == [none |-> TRUE, dims |-> <<>>]

Tuple(t) == [none |-> FALSE, dims |-> t]

\* The dtype of the storage attribute A.data of a sparse matrix: the entries'
\* dtype for a compressed matrix, whose A.data is the array of its non-zero
\* entries; object for a lil_matrix, whose A.data is an object array of
\* Python lists.
A_data_dtype(A) == IF A.format = "lil" THEN "object" ELSE A.dtype

\* self.complex (lines 50-53): np.iscomplexobj(A) for an ndarray,
\* np.iscomplexobj(A.data) otherwise.
MatrixMult_complex(A) ==
    IF A.format = "ndarray" THEN IsComplexDType(A.dtype)
    ELSE IsComplexDType(A_data_dtype(A))

\* The shape with rows and columns exchanged when broadcasting.
MatrixMult_shape_swapped(A, otherdims) ==
    IF otherdims.none THEN A_shape(A)
    ELSE <<SeqProd(<<A_shape(A)[2]>> \o otherdims.dims),
           SeqProd(<<A_shape(A)[1]>> \o otherdims.dims)>>

\* self.shape (lines 57 and 69)
MatrixMult_shape(A, otherdims) ==
    IF otherdims.none THEN A_shape(A)
    ELSE <<SeqProd(<<A_shape(A)[1]>> \o otherdims.dims),
           SeqProd(<<A_shape(A)[2]>> \o otherdims.dims)>>

\* The dtype check with the test on the requested dtype left out of account
\* for single precision.
MatrixMult_promotes_double_only(A, dtype) ==
    IsComplexDType(A.dtype) /\ dtype = "float64"

\* Whether the dtype check of line 73 fires.
MatrixMult_promotes(A, dtype) ==
    IsComplexDType(A.dtype) /\ ~IsComplexDType(dtype)

\* What MatrixMult.__init__(A, otherdims, dtype) logs (lines 75-77).
MatrixMult_init_log(A, otherdims, dtype) ==
    IF MatrixMult_promotes(A, dtype)
    THEN <<IF A.dtype = "complex64"
           THEN "WARNING: Matrix A is a complex object, dtype cast to complex64"
           ELSE "WARNING: Matrix A is a complex object, dtype cast to complex128">>
    ELSE <<>>

\* MatrixMult.__init__(A, otherdims, dtype): the object constructed.
MatrixMult_init(A, otherdims, dtype) ==
    LET rows == A_shape(A)[1]
        cols == A_shape(A)[2]
        promote == MatrixMult_promotes(A, dtype)
    IN  [cls |-> "MatrixMult",
         ok |-> TRUE,
         A |-> A,
         complex |-> MatrixMult_complex(A),
         dims |-> IF otherdims.none THEN cols ELSE <<cols>> \o otherdims.dims,
         dimsd |-> IF otherdims.none THEN rows ELSE <<rows>> \o otherdims.dims,
         otherdims |-> otherdims.dims,
         dimsflatten |-> IF otherdims.none THEN <<>>
                         ELSE <<cols, SeqProd(otherdims.dims)>>,
         dimsdflatten |-> IF otherdims.none THEN <<>>
                          ELSE <<rows, SeqProd(otherdims.dims)>>,
         reshape |-> ~otherdims.none,
         shape |-> MatrixMult_shape(A, otherdims),
         explicit |-> otherdims.none,
         dtype |-> IF promote THEN A.dtype ELSE dtype]

\* Forward that reads the buffer column by column.
MatrixMult_matvec_colmajor(self, x) ==
    LET x1 == IF self.reshape
              THEN nd_transpose(
                       nd_reshape(x, <<self.dimsflatten[2], self.dimsflatten[1]>>),
                       <<1, 0>>)
              ELSE nd_array(x)
    IN  nd_ravel(mat_dot(self.A.data, x1))

\* MatrixMult._matvec(x)
MatrixMult_matvec(self, x) ==
    LET x1 == IF self.reshape THEN nd_reshape(x, self.dimsflatten)
              ELSE nd_array(x)
        y == mat_dot(self.A.data, x1)
    IN  IF self.reshape THEN nd_ravel(y) ELSE y

\* MatrixMult._rmatvec(x)
MatrixMult_rmatvec(self, x) ==
    LET x1 == IF self.reshape THEN nd_reshape(x, self.dimsdflatten)
              ELSE nd_array(x)
        y == IF self.complex
             THEN nd_conj(mat_dot(mat_T(self.A.data), nd_conj(x1)))
             ELSE mat_dot(mat_T(self.A.data), x1)
    IN  IF self.reshape THEN nd_ravel(y) ELSE y

\* ------------------------------------------------------------------- state
VARIABLES
    op,     \* the operator object: the fields __init__ sets, or a raised error
    args,   \* the arguments of the constructor call that made op
    fwd,    \* the last _matvec call on op: its input and what it returned
    adj,    \* the last _rmatvec call on op: its input and what it returned
    log,    \* the records the logging module has emitted
    mem,    \* the callers' input buffers, shared by the threads
    thr     \* per thread: the frame of its call on op

vars == <<op, args, fwd, adj, log, mem, thr>>

NoArgs == [given |-> FALSE, dims |-> <<>>, axes |-> <<>>]

NoCall == [called |-> FALSE, x |-> <<>>, ok |-> FALSE, y |-> <<>>]

\* The record of a call with input x that returned (or raised) r.
CallOf(x, r) == [called |-> TRUE, x |-> x, ok |-> r.ok, y |-> r.data]

\* ------------------------------------------------------------------ inputs
\* dims tuples: rank 1..MaxRank, entries 1..MaxDim, at most MaxSize elements.
DimsSet ==
    UNION {{d \in SeqsOf(1..MaxDim, n) : SeqProd(d) <= MaxSize} : n \in 1..MaxRank}

\* axes arguments for rank n: every sequence of n indices, negative and
\* out-of-range ones included, and every sequence of n - 1 or n + 1 indices
\* in range.
AxesSet(n) ==
    SeqsOf((-(n + 1))..n, n) \cup SeqsOf(0..(n - 1), n - 1)
        \cup SeqsOf(0..(n - 1), n + 1)

Iota(n) == [k \in 1..n |-> k - 1]

\* Integer buffers of length n: 0, 1, .., n-1, and the buffers that are zero
\* but for one entry.
IntBuffers(n) ==
    {Iota(n)} \cup {[k \in 1..n |-> IF k = j THEN s ELSE 0] : j \in 1..n, s \in 1..MaxVal}

\* ------------------------------------------------ Transpose: construction
NoOperator ==
    /\ op = TransposeRaise("")
    /\ args = NoArgs
    /\ fwd = NoCall
    /\ adj = NoCall
    /\ log = <<>>
    /\ mem = <<>>
    /\ thr = <<>>

\* op = Transpose(dims, axes)
TransposeNew ==
    /\ ~args.given
    /\ \E dims \in DimsSet : \E axes \in AxesSet(Len(dims)) :
          /\ args' = [given |-> TRUE, dims |-> dims, axes |-> axes]
          /\ op' = Transpose_init(dims, axes, "float64")
    /\ UNCHANGED <<fwd, adj, log, mem, thr>>

TNext == TransposeNew

SpecTransposeInit == NoOperator /\ [][TNext]_vars

\* -------------------------------------------------- Transpose: application
\* The state after a construction that succeeded.
TAInit ==
    /\ \E dims \in DimsSet : \E axes \in AxesSet(Len(dims)) :
          LET t == Transpose_init(dims, axes, "float64")
          IN  t.ok /\ op = t
    /\ args = NoArgs
    /\ fwd = NoCall
    /\ adj = NoCall
    /\ log = <<>>
    /\ mem = <<>>
    /\ thr = <<>>

\* The inputs of a call that takes a buffer of n elements: the buffers of
\* that length, one buffer that is too long, and what the other call
\* returned.
TInputs(n, other) ==
    IntBuffers(n) \cup {Iota(n + 1)}
        \cup (IF other.called /\ other.ok THEN {other.y} ELSE {})

\* y = op._matvec(x)
TransposeMatvec ==
    /\ ~fwd.called
    /\ \E x \in TInputs(op.shape[2], adj) :
          fwd' = CallOf(x, Transpose_matvec(op, x))
    /\ UNCHANGED <<op, args, adj, log, mem, thr>>

\* y = op._rmatvec(x)
TransposeRmatvec ==
    /\ ~adj.called
    /\ \E x \in TInputs(op.shape[1], fwd) :
          adj' = CallOf(x, Transpose_rmatvec(op, x))
    /\ UNCHANGED <<op, args, fwd, log, mem, thr>>

TANext == TransposeMatvec \/ TransposeRmatvec

SpecTranspose == TAInit /\ [][TANext]_vars

\* ------------------------------------------------------ Transpose: claims
\* axes is a permutation of range(n).
IsPermutation(axes, n) ==
    /\ Len(axes) = n
    /\ \A m \in 0..(n - 1) : \E j \in 1..n : axes[j] = m

\* Every entry of axes is an axis index of rank n, negative ones included.
AxesInRange(axes, n) == \A i \in 1..Len(axes) : axes[i] \in (-n)..(n - 1)

\* axes, read with negative indices counted from the end, is a bijection
\* onto range(len(dims)).
ValidAxes(dims, axes) ==
    /\ AxesInRange(axes, Len(dims))
    /\ IsPermutation([i \in 1..Len(axes) |-> axes[i] % Len(dims)], Len(dims))

\* The multi-indices (0-based entries) of an array of the given shape.
MultiIndices(shape) ==
    {k \in SeqsOf(0..(SeqProd(shape) - 1), Len(shape)) :
        \A j \in 1..Len(shape) : k[j] < shape[j]}

\* The row-major position (0-based) of multi-index k in shape, by Horner's rule.
RECURSIVE RowMajorFrom(_, _, _, _)
RowMajorFrom(k, shape, j, acc) ==
    IF j > Len(shape) THEN acc
    ELSE RowMajorFrom(k, shape, j + 1, acc * shape[j] + k[j])

RowMajor(k, shape) == RowMajorFrom(k, shape, 1, 0)

\* A forward call whose input has prod(dims) elements, on an operator whose
\* axes are a permutation.
FwdInDomain ==
    fwd.called /\ IsPermutation(op.axes, Len(op.dims))
        /\ Len(fwd.x) = SeqProd(op.dims)

AdjInDomain ==
    adj.called /\ IsPermutation(op.axes, Len(op.dims))
        /\ Len(adj.x) = SeqProd(op.dimsd)

\* C1: round trip. On an operator whose axes are a permutation of
\* range(len(dims)), _rmatvec applied to what _matvec returned for x returns
\* x, and _matvec applied to what _rmatvec returned for y returns y.
C1_RoundTrip ==
    /\ (FwdInDomain /\ adj.called /\ adj.x = fwd.y)
          => (fwd.ok /\ adj.ok /\ adj.y = fwd.x)
    /\ (AdjInDomain /\ fwd.called /\ fwd.x = adj.y)
          => (adj.ok /\ fwd.ok /\ fwd.y = adj.x)

\* C1 witness: a round trip through an operator of rank 3 whose axes are a
\* 3-cycle, on a buffer the forward call does not leave as it is.
C1_Witness ==
    /\ FwdInDomain /\ adj.called /\ adj.x = fwd.y
    /\ op.axes = <<1, 2, 0>>
    /\ fwd.y # fwd.x
    /\ adj.y = fwd.x

\* C3 as stated: every axes sequence with entries in range that is not a
\* bijection onto range(len(dims)) (a repeated index, a missing index, a
\* wrong length) makes construction fail with "axes must contain each
\* direction once", and no operator is produced.
C3_InvalidAxesRejected ==
    (args.given /\ AxesInRange(args.axes, Len(args.dims))
        /\ ~ValidAxes(args.dims, args.axes))
      => (~op.ok /\ op.error = "axes must contain each direction once")

\* C4: forward is the axis permutation. For an input of prod(dims) elements
\* the result has prod(dimsd) elements where dimsd[j] = dims[axes[j]], and
\* its element at multi-index k (row-major in dimsd) is the element of x at
\* the multi-index i with i[axes[j]] = k[j] (row-major in dims); dims=(2,3),
\* axes=(1,0), x=[0,1,2,3,4,5] gives [0,3,1,4,2,5].
C4_ForwardPermutes ==
    FwdInDomain =>
        LET n == Len(op.dims)
            dimsd == [j \in 1..n |-> At(op.dims, op.axes[j])]
        IN  /\ fwd.ok
            /\ op.dimsd = dimsd
            /\ Len(fwd.y) = SeqProd(dimsd)
            /\ \A k \in MultiIndices(dimsd) :
                  LET i == [m \in 1..n |-> k[CHOOSE j \in 1..n : op.axes[j] = m - 1]]
                  IN  fwd.y[RowMajor(k, dimsd) + 1] = fwd.x[RowMajor(i, op.dims) + 1]
            /\ (op.dims = <<2, 3>> /\ op.axes = <<1, 0>>
                    /\ fwd.x = <<0, 1, 2, 3, 4, 5>>)
                  => fwd.y = <<0, 3, 1, 4, 2, 5>>

\* C4 witness: the example of the claim.
C4_Witness ==
    /\ FwdInDomain
    /\ op.dims = <<2, 3>> /\ op.axes = <<1, 0>>
    /\ fwd.x = <<0, 1, 2, 3, 4, 5>>
    /\ fwd.y = <<0, 3, 1, 4, 2, 5>>

\* C9 as stated: for valid dims and axes, dimsd[axesd[i]] = dims[i] for every
\* i and dimsd[axes[j]] = dims[j] for every j.
C9_DimsdByAxes ==
    (args.given /\ ValidAxes(args.dims, args.axes)) =>
        /\ op.ok
        /\ \A i \in 1..Len(op.dims) : At(op.dimsd, op.axesd[i]) = op.dims[i]
        /\ \A j \in 1..Len(op.dims) : At(op.dimsd, op.axes[j]) = op.dims[j]

\* C9 amended: for valid dims and axes, dimsd[axesd[i]] = dims[i] for every i
\* and, equivalently, dimsd[j] = dims[axes[j]] for every j: applying axes to
\* dims yields dimsd.
C9_DimsdByAxesd ==
    (args.given /\ ValidAxes(args.dims, args.axes)) =>
        /\ op.ok
        /\ Len(op.dimsd) = Len(op.dims)
        /\ \A i \in 1..Len(op.dims) : At(op.dimsd, op.axesd[i]) = op.dims[i]
        /\ \A j \in 1..Len(op.dims) : op.dimsd[j] = At(op.dims, op.axes[j])

\* C9 witness: an operator built from a 3-cycle over rank 3, which is not its
\* own inverse, and dims that the cycle rearranges.
C9_Witness ==
    /\ args.given /\ ValidAxes(args.dims, args.axes)
    /\ op.ok
    /\ op.axes = <<1, 2, 0>> /\ op.axesd = <<2, 0, 1>>
    /\ op.dims = <<1, 2, 3>> /\ op.dimsd = <<2, 3, 1>>

\* C10 as stated: for every constructed Transpose the stored axes lie in
\* [0, len(dims)), axesd is the inverse permutation of axes (axesd[axes[i]] = i
\* and axes[axesd[i]] = i for every i), and a negative axis index a behaves
\* exactly like a + len(dims).
C10_InversePermutation ==
    (args.given /\ op.ok) =>
        LET n == Len(op.dims)
        IN  /\ \A i \in 1..Len(op.axes) : op.axes[i] \in 0..(n - 1)
            /\ \A i \in 1..Len(op.axes) : At(op.axesd, op.axes[i]) = i - 1
            /\ \A i \in 1..Len(op.axesd) : At(op.axes, op.axesd[i]) = i - 1
            /\ op = Transpose_init(
                        args.dims,
                        [i \in 1..Len(args.axes) |->
                            IF args.axes[i] < 0 THEN args.axes[i] + n
                            ELSE args.axes[i]],
                        "float64")

\* -------------------------------------------------- MatrixMult: inputs
DTypes == {"float32", "float64", "int64", "complex64", "complex128"}

\* The entries of the matrices applied: 1, 2, .., r*c row by row; the same
\* with imaginary parts; and the matrices with a single entry 1 or i.
MatIota(r, c) == [i \in 1..r |-> [j \in 1..c |-> <<(i - 1) * c + j, 0>>]]

MatIotaC(r, c) == [i \in 1..r |-> [j \in 1..c |-> <<(i - 1) * c + j, i - 2 * j>>]]

MatData(r, c) ==
    {MatIota(r, c), MatIotaC(r, c)}
    \cup {[i \in 1..r |-> [j \in 1..c |->
              IF i = a /\ j = b THEN e ELSE <<0, 0>>]] :
          a \in 1..r, b \in 1..c, e \in {<<1, 0>>, <<0, 1>>}}

IsRealData(M) == \A i \in 1..Len(M) : \A j \in 1..Len(M[i]) : M[i][j][2] = 0

\* The containers of a matrix argument.
Formats == {"ndarray", "csr", "lil"}

\* Matrices: dense or sparse, of a dtype that can hold the entries.
Matrices(dtypes) ==
    {A \in [dtype : dtypes, format : Formats,
            data : UNION {MatData(r, c) : r \in 1..MaxMat, c \in 1..MaxMat}] :
        IsRealData(A.data) \/ IsComplexDType(A.dtype)}

\* otherdims for a matrix of shape (r, c): None, or a tuple of positive
\* integers that keeps the buffers within MaxLen elements.
OtherDimsSet(r, c) ==
    {None} \cup
    {Tuple(t) : t \in {u \in UNION {SeqsOf(1..MaxOther, n) : n \in 0..MaxOtherRank} :
                          r * SeqProd(u) <= MaxLen /\ c * SeqProd(u) <= MaxLen}}

\* Complex buffers of length n: all ones, a ramp with imaginary parts, and
\* the buffers that are zero but for one entry 1, i or 2 - i.
Ramp(n) == [k \in 1..n |-> <<k, k - 2>>]

CBuffers(n) ==
    {[k \in 1..n |-> <<1, 0>>], Ramp(n)}
    \cup {[k \in 1..n |-> IF k = j THEN e ELSE <<0, 0>>] :
          j \in 1..n, e \in {<<1, 0>>, <<0, 1>>, <<2, -1>>}}

\* ---------------------------------------------- MatrixMult: construction
\* op = MatrixMult(A, otherdims, dtype)
MatrixMultNew ==
    /\ ~args.given
    /\ \E A \in Matrices(DTypes) :
       \E otherdims \in OtherDimsSet(A_shape(A)[1], A_shape(A)[2]) :
       \E dtype \in DTypes :
          /\ args' = [given |-> TRUE, A |-> A, otherdims |-> otherdims,
                      dtype |-> dtype]
          /\ op' = MatrixMult_init(A, otherdims, dtype)
          /\ log' = log \o MatrixMult_init_log(A, otherdims, dtype)
    /\ UNCHANGED <<fwd, adj, mem, thr>>

MNext == MatrixMultNew

SpecMatrixMultInit == NoOperator /\ [][MNext]_vars

\* ------------------------------------------------ MatrixMult: application
\* The state after a construction with the default dtype.
MAInit ==
    /\ \E A \in Matrices({"float64", "complex128"}) :
       \E otherdims \in OtherDimsSet(A_shape(A)[1], A_shape(A)[2]) :
          /\ op = MatrixMult_init(A, otherdims, "float64")
          /\ log = MatrixMult_init_log(A, otherdims, "float64")
    /\ args = NoArgs
    /\ fwd = NoCall
    /\ adj = NoCall
    /\ mem = <<>>
    /\ thr = <<>>

\* y = op._matvec(x)
MatrixMultMatvec ==
    /\ ~fwd.called
    /\ \E x \in CBuffers(op.shape[2]) \cup CBuffers(op.shape[2] + 1) :
          fwd' = CallOf(x, MatrixMult_matvec(op, x))
    /\ UNCHANGED <<op, args, adj, log, mem, thr>>

\* y = op._rmatvec(x)
MatrixMultRmatvec ==
    /\ ~adj.called
    /\ \E x \in CBuffers(op.shape[1]) \cup CBuffers(op.shape[1] + 1) :
          adj' = CallOf(x, MatrixMult_rmatvec(op, x))
    /\ UNCHANGED <<op, args, fwd, log, mem, thr>>

MANext == MatrixMultMatvec \/ MatrixMultRmatvec

SpecMatrixMult == MAInit /\ [][MANext]_vars

\* ----------------------------------------------------- MatrixMult: claims
\* np.vdot(a, b): the inner product that conjugates its first argument.
VDot(a, b) == CSum([k \in 1..Len(a) |-> CMul(CConj(a[k]), b[k])], Len(a))

\* The forward (adjoint) call had an input of shape[1] (shape[0]) elements.
MFwdInDomain == fwd.called /\ Len(fwd.x) = op.shape[2]

MAdjInDomain == adj.called /\ Len(adj.x) = op.shape[1]

\* C2 as stated: adjoint identity. For every matrix A, dense or sparse, real
\* or complex, with and without otherdims, and for x of shape[1] elements and
\* y of shape[0] elements, vdot(_rmatvec(y), x) = vdot(y, _matvec(x)), exactly.
C2_AdjointIdentity ==
    (MFwdInDomain /\ MAdjInDomain) =>
        /\ fwd.ok /\ adj.ok
        /\ Len(fwd.y) = op.shape[1] /\ Len(adj.y) = op.shape[2]
        /\ VDot(adj.y, fwd.x) = VDot(adj.x, fwd.y)

\* C5: forward with broadcasting. For A with r rows and c columns and x of
\* c * prod(otherdims) elements, _matvec(x) has r * prod(otherdims) elements
\* and is the row-major flattening of A @ X, X being x read row-major in shape
\* (c, *otherdims); without otherdims it is A @ x.  A = [[1,2],[3,4]],
\* x = [1,1] gives [3,7], and _rmatvec([1,1]) gives [4,6].
C5_ForwardBroadcast ==
    /\ MFwdInDomain =>
        LET M == op.A.data
            r == Len(M)
            c == Len(M[1])
            od == op.otherdims
        IN  /\ fwd.ok
            /\ Len(fwd.x) = c * SeqProd(od)
            /\ Len(fwd.y) = r * SeqProd(od)
            /\ \A i \in 0..(r - 1) : \A m \in MultiIndices(od) :
                  fwd.y[RowMajor(<<i>> \o m, <<r>> \o od) + 1] =
                      CSum([j \in 1..c |->
                               CMul(M[i + 1][j],
                                    fwd.x[RowMajor(<<j - 1>> \o m, <<c>> \o od) + 1])],
                           c)
            /\ (M = <<<< <<1, 0>>, <<2, 0>> >>, << <<3, 0>>, <<4, 0>> >>>>
                    /\ fwd.x = << <<1, 0>>, <<1, 0>> >>)
                  => fwd.y = << <<3, 0>>, <<7, 0>> >>
    /\ (MAdjInDomain
            /\ op.A.data = <<<< <<1, 0>>, <<2, 0>> >>, << <<3, 0>>, <<4, 0>> >>>>
            /\ adj.x = << <<1, 0>>, <<1, 0>> >>)
          => adj.y = << <<4, 0>>, <<6, 0>> >>

\* C5 witness: a forward call on an operator over a 2 x 2 matrix broadcast
\* over otherdims = (2,), on a buffer that is not constant.
C5_Witness ==
    /\ MFwdInDomain
    /\ op.reshape /\ op.otherdims = <<2>>
    /\ op.A.data = <<<< <<1, 0>>, <<2, 0>> >>, << <<3, 0>>, <<4, 0>> >>>>
    /\ fwd.x = << <<1, -1>>, <<2, 0>>, <<3, 1>>, <<4, 2>> >>
    /\ fwd.y = << <<7, 1>>, <<10, 4>>, <<15, 1>>, <<22, 8>> >>

\* C6: shape and explicit flag. Without otherdims shape = A.shape,
\* dims = cols(A), dimsd = rows(A) and explicit is true; with otherdims
\* shape = (rows(A) * prod(otherdims), cols(A) * prod(otherdims)) and explicit
\* is false.
C6_ShapeExplicit ==
    args.given =>
        LET r == Len(args.A.data)
            c == Len(args.A.data[1])
            P == SeqProd(args.otherdims.dims)
        IN  IF args.otherdims.none
            THEN /\ op.shape = <<r, c>>
                 /\ op.dims = c
                 /\ op.dimsd = r
                 /\ op.explicit
            ELSE /\ op.shape = <<r * P, c * P>>
                 /\ ~op.explicit

\* C6 witness: a matrix that is not square, broadcast over two columns.
C6_Witness ==
    /\ args.given
    /\ ~args.otherdims.none
    /\ Len(args.A.data) = 1 /\ Len(args.A.data[1]) = 2
    /\ args.otherdims.dims = <<2>>
    /\ op.shape = <<2, 4>>
    /\ ~op.explicit

\* C8: dtype promotion. Whenever A is complex the operator's dtype is complex,
\* whatever dtype was requested; a complex A with dtype "float64" requested
\* yields dtype = A.dtype and a warning; a real A, or a complex dtype
\* requested, leaves dtype as requested and logs nothing.
C8_DtypePromotion ==
    args.given =>
        /\ IsComplexDType(args.A.dtype) => IsComplexDType(op.dtype)
        /\ (IsComplexDType(args.A.dtype) /\ args.dtype = "float64")
              => (op.dtype = args.A.dtype /\ Len(log) = 1)
        /\ (~IsComplexDType(args.A.dtype) \/ IsComplexDType(args.dtype))
              => (op.dtype = args.dtype /\ log = <<>>)

\* C8 witness: a complex64 matrix with a single-precision real dtype
\* requested, promoted with a warning.
C8_Witness ==
    /\ args.given
    /\ args.A.dtype = "complex64" /\ args.dtype = "float32"
    /\ op.dtype = "complex64"
    /\ Len(log) = 1

\* ------------------------------------------------------------------ threads
\* Threads call _matvec and _rmatvec on one operator, each on a buffer of its
\* caller; a step is one array operation of the method's body.  A local array
\* that is a view reads the caller's buffer when it is used.
Threads == 1..NThreads

\* What a constructor call leaves behind: the object, and the records it
\* logged (Transpose.__init__ logs nothing).
TransposeMade(dims, axes, dtype) ==
    [op |-> Transpose_init(dims, axes, dtype), log |-> <<>>]

MatrixMultMade(A, otherdims, dtype) ==
    [op |-> MatrixMult_init(A, otherdims, dtype),
     log |-> MatrixMult_init_log(A, otherdims, dtype)]

\* The operators the threads share: transposes (one the identity, whose ravel
\* returns a view of the input), and real and complex matrices with and
\* without otherdims.
ThreadOps ==
    {TransposeMade(<<2, 3>>, <<1, 0>>, "float64"),
     TransposeMade(<<2, 2>>, <<0, 1>>, "float64"),
     TransposeMade(<<2, 1, 2>>, <<-2, 2, 0>>, "float64"),
     MatrixMultMade([dtype |-> "float64", format |-> "ndarray", data |-> MatIota(2, 2)],
                    None, "float64"),
     MatrixMultMade([dtype |-> "complex128", format |-> "ndarray", data |-> MatIotaC(2, 2)],
                    None, "float64"),
     MatrixMultMade([dtype |-> "complex128", format |-> "ndarray", data |-> MatIotaC(1, 2)],
                    Tuple(<<2>>), "complex128"),
     MatrixMultMade([dtype |-> "float64", format |-> "ndarray", data |-> MatIota(2, 1)],
                    Tuple(<<2>>), "float64")}

Idle ==
    [status |-> "idle", method |-> "", xp |-> 0, x0 |-> <<>>, pc |-> 0,
     view |-> FALSE, loc |-> NdRaise(""), ret |-> <<>>]

\* The array operations of a method's body, in order (Transpose.py 77-79,
\* MatrixMult.py 81-87 and 91-101).
Prog(self, method) ==
    IF self.cls = "Transpose" THEN <<"reshape", "transpose", "ravel">>
    ELSE (IF self.reshape THEN <<"reshape">> ELSE <<>>)
         \o (IF method = "rmatvec" /\ self.complex
             THEN <<"conj", "dot", "conj">> ELSE <<"dot">>)
         \o (IF self.reshape THEN <<"ravel">> ELSE <<>>)

\* The local array of frame f as it reads now.
Cur(f) == IF f.view THEN [f.loc EXCEPT !.data = mem[f.xp]] ELSE f.loc

\* Whether frame f is about to run the array operation ins.
AtIns(f, ins) ==
    /\ f.status = "running"
    /\ f.pc <= Len(Prog(op, f.method))
    /\ Prog(op, f.method)[f.pc] = ins

ThreadInit ==
    /\ \E made \in ThreadOps : op = made.op /\ log = made.log
    /\ args = NoArgs
    /\ fwd = NoCall
    /\ adj = NoCall
    /\ mem = <<Ramp(op.shape[2]), Ramp(op.shape[1])>>
    /\ thr = [t \in Threads |-> Idle]

\* Thread t calls op._matvec(mem[xp]) or op._rmatvec(mem[xp]).
ThreadCall(t) ==
    /\ thr[t].status = "idle"
    /\ \E method \in {"matvec", "rmatvec"} : \E xp \in 1..Len(mem) :
          /\ Len(mem[xp]) = IF method = "matvec" THEN op.shape[2] ELSE op.shape[1]
          /\ thr' = [thr EXCEPT ![t] =
                [status |-> "running", method |-> method, xp |-> xp,
                 x0 |-> mem[xp], pc |-> 1, view |-> TRUE,
                 loc |-> nd_array(mem[xp]), ret |-> <<>>]]
    /\ UNCHANGED <<op, args, fwd, adj, log, mem>>

\* The shape the method reshapes its input to.
ReshapeTo(self, method) ==
    IF self.cls = "Transpose"
    THEN (IF method = "matvec" THEN self.dims ELSE self.dimsd)
    ELSE (IF method = "matvec" THEN self.dimsflatten ELSE self.dimsdflatten)

\* x.reshape(..) / ncp.reshape(x, ..): a view of the input.
ThreadReshape(t) ==
    /\ AtIns(thr[t], "reshape")
    /\ thr' = [thr EXCEPT ![t].loc = nd_reshape(Cur(thr[t]).data,
                                                ReshapeTo(op, thr[t].method)),
                          ![t].pc = @ + 1]
    /\ UNCHANGED <<op, args, fwd, adj, log, mem>>

\* y.transpose(self.axes) / y.transpose(self.axesd): a view.
ThreadTranspose(t) ==
    /\ AtIns(thr[t], "transpose")
    /\ thr' = [thr EXCEPT ![t].loc =
                  nd_transpose(Cur(thr[t]),
                               IF thr[t].method = "matvec" THEN op.axes ELSE op.axesd),
                          ![t].pc = @ + 1]
    /\ UNCHANGED <<op, args, fwd, adj, log, mem>>

\* A conjugation that writes its result over the array it reads.
ThreadConjInPlace(t) ==
    /\ AtIns(thr[t], "conj")
    /\ thr' = [thr EXCEPT ![t].loc = nd_conj(Cur(thr[t])), ![t].pc = @ + 1]
    /\ mem' = IF thr[t].view
              THEN [mem EXCEPT ![thr[t].xp] = nd_conj(Cur(thr[t])).data]
              ELSE mem
    /\ UNCHANGED <<op, args, fwd, adj, log>>

\* x.conj() and (..).conj(): a new array.
ThreadConj(t) ==
    /\ AtIns(thr[t], "conj")
    /\ thr' = [thr EXCEPT ![t].loc = nd_conj(Cur(thr[t])),
                          ![t].view = FALSE,
                          ![t].pc = @ + 1]
    /\ UNCHANGED <<op, args, fwd, adj, log, mem>>

\* self.A.dot(x) / self.A.T.dot(x): a new array.
ThreadDot(t) ==
    /\ AtIns(thr[t], "dot")
    /\ thr' = [thr EXCEPT ![t].loc =
                  mat_dot(IF thr[t].method = "matvec" THEN op.A.data
                          ELSE mat_T(op.A.data),
                          Cur(thr[t])),
                          ![t].view = FALSE,
                          ![t].pc = @ + 1]
    /\ UNCHANGED <<op, args, fwd, adj, log, mem>>

\* Whether an array is C-contiguous: its strides are the row-major ones on
\* every axis longer than 1.
nd_c_contiguous(y) ==
    \A j \in 1..Len(y.shape) :
        y.shape[j] = 1 \/ y.strides[j] = CStrides(y.shape)[j]

\* y.ravel(): a view when y is C-contiguous, a copy otherwise.
ThreadRavel(t) ==
    /\ AtIns(thr[t], "ravel")
    /\ thr' = [thr EXCEPT ![t].loc = nd_ravel(Cur(thr[t])),
                          ![t].view = @ /\ nd_c_contiguous(thr[t].loc),
                          ![t].pc = @ + 1]
    /\ UNCHANGED <<op, args, fwd, adj, log, mem>>

\* return y
ThreadReturn(t) ==
    /\ thr[t].status = "running"
    /\ thr[t].pc = Len(Prog(op, thr[t].method)) + 1
    /\ thr' = [thr EXCEPT ![t].status = "done", ![t].ret = Cur(thr[t]).data]
    /\ UNCHANGED <<op, args, fwd, adj, log, mem>>

ThreadNext ==
    \E t \in Threads :
        \/ ThreadCall(t)
        \/ ThreadReshape(t)
        \/ ThreadTranspose(t)
        \/ ThreadConj(t)
        \/ ThreadDot(t)
        \/ ThreadRavel(t)
        \/ ThreadReturn(t)

SpecThreads == ThreadInit /\ [][ThreadNext]_vars

\* What a call returns when it runs alone.
Alone(self, method, x) ==
    IF self.cls = "Transpose"
    THEN (IF method = "matvec" THEN Transpose_matvec(self, x)
          ELSE Transpose_rmatvec(self, x)).data
    ELSE (IF method = "matvec" THEN MatrixMult_matvec(self, x)
          ELSE MatrixMult_rmatvec(self, x)).data

\* C7: operators are immutable and safe under concurrent application. In
\* every interleaving of the threads' calls, no step writes the operator's
\* configuration or a caller's input buffer, and every call that returns,
\* returns what the same call returns when run alone on its input.
C7_ThreadSafe ==
    [][/\ op' = op
       /\ mem' = mem
       /\ \A t \in Threads :
             thr'[t].status = "done" =>
                 thr'[t].ret = Alone(op, thr'[t].method, thr'[t].x0)]_vars

\* C7 witness: on the complex broadcasting MatrixMult, one thread has
\* returned from _rmatvec while another is in the middle of _rmatvec on the
\* same buffer, past its first conjugation.
C7_Witness ==
    /\ op.cls = "MatrixMult" /\ op.complex /\ op.reshape
    /\ \E t, u \in Threads :
          /\ t # u
          /\ thr[t].status = "done" /\ thr[t].method = "rmatvec"
          /\ thr[u].status = "running" /\ thr[u].method = "rmatvec"
          /\ thr[u].xp = thr[t].xp
          /\ thr[u].pc = 3
          /\ thr[t].ret = Alone(op, "rmatvec", mem[thr[t].xp])

====
